---- MODULE Spec2Model ----
(***************************************************************************)
(* The audio censorship utility of src/app.py: module initialisation, the  *)
(* toxicity predicate is_toxic, the aligner censor_audio, and the upload,  *)
(* download and cleanup handlers with the files they keep in UPLOAD_FOLDER.*)
(*                                                                         *)
(* A clip is a sequence of millisecond frames.  Frame k of an uploaded     *)
(* clip carries the number k; a frame of the tone carries 0.               *)
(***************************************************************************)
EXTENDS Integers, Sequences, FiniteSets, TLC

(***************************************************************************)
(* Python floats.  len(audio) / len(words), i * duration and               *)
(* word['start_time'] * 1000 are IEEE-754 double operations, each rounded  *)
(* to the nearest double (ties to even).  A positive double is kept as its *)
(* 53-bit significand m, most significant bit first, and the exponent e of *)
(* its leading bit: its value is m * 2^(e - 52).                           *)
(***************************************************************************)
MantBits == 53

\* the significand below its leading bit is handled in four limbs, so that every
\* intermediate value stays a small integer
LimbBits == (MantBits - 1) \div 4

LimbBase == 2 ^ LimbBits

RECURSIVE NormUp(_, _, _)
\* for a >= b >= 1: b scaled by the largest power of two that keeps it <= a
NormUp(a, b, s) ==
    IF 2 * b <= a THEN NormUp(a, 2 * b, s + 1) ELSE [num |-> a, den |-> b, e |-> s]

RECURSIVE NormDown(_, _, _)
\* for 1 <= a < b: a scaled by the smallest power of two that makes it >= b
NormDown(a, b, s) ==
    IF a < b THEN NormDown(2 * a, b, s + 1) ELSE [num |-> a, den |-> b, e |-> 0 - s]

\* num / den in [1, 2) and e with a / b = (num / den) * 2^e
Normalise(a, b) == IF a >= b THEN NormUp(a, b, 0) ELSE NormDown(a, b, 0)

\* one limb of long division: the next LimbBits bits of r / den and the remainder
DivStep(r, den) == [q |-> (r * LimbBase) \div den, r |-> (r * LimbBase) % den]

\* the w bits of n (n < 2^w), most significant first
BitsOf(n, w) == [k \in 1..w |-> (n \div (2 ^ (w - k))) % 2]

\* the number of bits of n >= 1
BitLen(n) == CHOOSE w \in 1..31 : 2 ^ (w - 1) <= n /\ (w = 31 \/ n < 2 ^ w)

RECURSIVE BitsToInt(_, _)
\* the integer written by the first k bits
BitsToInt(bits, k) == IF k = 0 THEN 0 ELSE 2 * BitsToInt(bits, k - 1) + bits[k]

\* bits + 1 in the same width, for bits that are not all ones
Incr(bits) ==
    LET z == CHOOSE k \in 1..Len(bits) :
                 bits[k] = 0 /\ \A j \in (k + 1)..Len(bits) : bits[j] = 1
    IN  [k \in 1..Len(bits) |-> IF k < z THEN bits[k] ELSE IF k = z THEN 1 ELSE 0]

AllOnes(bits) == \A k \in 1..Len(bits) : bits[k] = 1

\* the double with significand bits (one unit more when up) and exponent e
Rounded(bits, e, up) ==
    IF ~up THEN [zero |-> FALSE, m |-> bits, e |-> e]
    ELSE IF AllOnes(bits)
         THEN [zero |-> FALSE, m |-> [k \in 1..Len(bits) |-> IF k = 1 THEN 1 ELSE 0], e |-> e + 1]
         ELSE [zero |-> FALSE, m |-> Incr(bits), e |-> e]

FZero == [zero |-> TRUE, m |-> <<>>, e |-> 0]

\* a / b for ints a >= 0, b >= 1: the double nearest the quotient
FDiv(a, b) ==
    IF a = 0 THEN FZero
    ELSE LET nm == Normalise(a, b)
             s1 == DivStep(nm.num - nm.den, nm.den)
             s2 == DivStep(s1.r, nm.den)
             s3 == DivStep(s2.r, nm.den)
             s4 == DivStep(s3.r, nm.den)
             m  == <<1>> \o BitsOf(s1.q, LimbBits) \o BitsOf(s2.q, LimbBits)
                         \o BitsOf(s3.q, LimbBits) \o BitsOf(s4.q, LimbBits)
             up == 2 * s4.r > nm.den \/ (2 * s4.r = nm.den /\ s4.q % 2 = 1)
         IN  Rounded(m, nm.e, up)

\* limb j (1..4) of a significand, below its leading bit
Limb(m, j) == BitsToInt(SubSeq(m, 2 + LimbBits * (j - 1), 1 + LimbBits * j), LimbBits)

\* i * x for an int i >= 0 and a double x: the double nearest the product
FMulInt(i, x) ==
    IF i = 0 \/ x.zero THEN FZero
    ELSE LET c4   == Limb(x.m, 4) * i
             c3   == Limb(x.m, 3) * i + (c4 \div LimbBase)
             c2   == Limb(x.m, 2) * i + (c3 \div LimbBase)
             c1   == Limb(x.m, 1) * i + (c2 \div LimbBase)
             t    == i + (c1 \div LimbBase)
             b    == BitLen(t)
             p    == BitsOf(t, b) \o BitsOf(c1 % LimbBase, LimbBits)
                                  \o BitsOf(c2 % LimbBase, LimbBits)
                                  \o BitsOf(c3 % LimbBase, LimbBits)
                                  \o BitsOf(c4 % LimbBase, LimbBits)
             keep == SubSeq(p, 1, MantBits)
             drop == SubSeq(p, MantBits + 1, Len(p))
             up   == /\ b > 1
                     /\ drop[1] = 1
                     /\ \/ \E k \in 2..Len(drop) : drop[k] = 1
                        \/ keep[MantBits] = 1
         IN  Rounded(keep, x.e + (b - 1), up)

\* int(x) for a double x >= 0: truncation
FToInt(x) == IF x.zero \/ x.e < 0 THEN 0 ELSE BitsToInt(x.m, x.e + 1)

(***************************************************************************)
(* Bounds of the inputs drawn.                                             *)
(***************************************************************************)
\* timestamps of word timings are k / TicksPerSec seconds, k in 0..MaxTime
MaxTime == 4

\* most words in a word-timing list
MaxTimedWords == 2

\* longest clip (ms) paired with word timings and with short texts
MaxShortClip == 5

\* most characters in a text drawn character by character
MaxTextLen == 3

\* most words in a text of one-letter words, and the longest clip paired with one
MaxWords == 7

MaxClipLen == 61

(***************************************************************************)
(* Program constants.                                                      *)
(***************************************************************************)
\* Sine(1000).to_audio_segment(duration=100)
BeepLen == 100

\* result["score"] > 0.7, scores in hundredths
ScoreThreshold == 70

\* int(word['start_time'] * 1000)
MsPerSec == 1000

\* the timestamps drawn lie on a grid of one millisecond
TicksPerSec == MsPerSec

(***************************************************************************)
(* Python values.                                                          *)
(***************************************************************************)
None == [kind |-> "None"]

AudioSegment(frames) == [kind |-> "AudioSegment", frames |-> frames]

Raise(exc) == [kind |-> "raise", exc |-> exc]

\* a decoded clip of L ms
Clip(L) == AudioSegment([k \in 1..L |-> k])

\* len(seg): AudioSegment.__len__, in ms
AudioLen(seg) == Len(seg.frames)

\* Python truth of a value: None, a zero-length AudioSegment (it defines __len__),
\* an empty list, an empty str are false
Truthy(v) ==
    CASE v.kind = "None"         -> FALSE
      [] v.kind = "AudioSegment" -> Len(v.frames) > 0
      [] v.kind = "list"         -> Len(v.words) > 0
      [] v.kind = "str"          -> Len(v.chars) > 0
      [] v.kind = "dict"         -> TRUE
      [] v.kind = "pipeline"     -> TRUE

Min(a, b) == IF a <= b THEN a ELSE b

\* seg[a:b] for 0 <= a, b: pydub clamps both ends to len(seg)
Slice(seg, a, b) == AudioSegment(SubSeq(seg.frames, Min(a, AudioLen(seg)) + 1, Min(b, AudioLen(seg))))

\* seg[a:]
SliceFrom(seg, a) == Slice(seg, a, AudioLen(seg))

\* seg1 + seg2
Concat(seg1, seg2) == AudioSegment(seg1.frames \o seg2.frames)

Whitespace == {" "}

Letters == {"a", "b"}

\* str.strip()
Strip(word) ==
    IF \A k \in 1..Len(word) : word[k] \in Whitespace THEN <<>>
    ELSE LET first == CHOOSE k \in 1..Len(word) :
                          word[k] \notin Whitespace /\ \A j \in 1..(k - 1) : word[j] \in Whitespace
             last  == CHOOSE k \in 1..Len(word) :
                          word[k] \notin Whitespace /\ \A j \in (k + 1)..Len(word) : word[j] \in Whitespace
         IN  SubSeq(word, first, last)

RECURSIVE SplitFrom(_, _, _)
\* str.split() from character k on, cur being the word under way
SplitFrom(chars, k, cur) ==
    IF k > Len(chars) THEN (IF cur = <<>> THEN <<>> ELSE <<cur>>)
    ELSE IF chars[k] \in Whitespace
         THEN (IF cur = <<>> THEN <<>> ELSE <<cur>>) \o SplitFrom(chars, k + 1, <<>>)
         ELSE SplitFrom(chars, k + 1, Append(cur, chars[k]))

\* words_info.split()
Split(chars) == SplitFrom(chars, 1, <<>>)

(***************************************************************************)
(* State.                                                                  *)
(***************************************************************************)
VARIABLES
    pipeline_ok,          \* environment: pipeline("text-classification", ...) loads
    sine_ok,              \* environment: Sine(1000).to_audio_segment(...) succeeds
    behaviour,            \* environment: what the loaded classifier answers, per kind of word
    toxicity_classifier,  \* module global: the pipeline, or None
    beep,                 \* module global: the tone, or None
    words_info,           \* censor_audio under test: its transcription argument
    audio,                \* censor_audio under test: its clip argument
    censored,             \* censor_audio under test: what the call returned or raised
    word,                 \* is_toxic under test: its argument
    toxic,                \* is_toxic under test: what the call returned
    files,                \* the names of the files in UPLOAD_FOLDER
    next_uuid,            \* the uuid4() values handed out so far
    requests,             \* the POST / requests handled, in order
    responses,            \* download responses sent and not yet closed
    closed,               \* file names whose download response was closed
    flash                 \* the message the last request flashed, "" for none

vars == <<pipeline_ok, sine_ok, behaviour, toxicity_classifier, beep, words_info, audio,
          censored, word, toxic, files, next_uuid, requests, responses, closed, flash>>

envVars == <<pipeline_ok, sine_ok, behaviour, toxicity_classifier, beep>>

censorVars == <<words_info, audio, censored>>

toxicVars == <<word, toxic>>

webVars == <<files, next_uuid, requests, responses, closed, flash>>

Pending == [kind |-> "pending"]

(***************************************************************************)
(* Module initialisation (lines 21-31): one try block builds the           *)
(* classifier and then the tone; the handler of any exception sets both    *)
(* globals to None.                                                        *)
(***************************************************************************)
Pipeline == [kind |-> "pipeline"]

\* the 100 ms sine tone
Tone == AudioSegment([k \in 1..BeepLen |-> 0])

InitComponents(p_ok, s_ok) ==
    IF p_ok /\ s_ok
    THEN [toxicity_classifier |-> Pipeline, beep |-> Tone]
    ELSE [toxicity_classifier |-> None, beep |-> None]

(***************************************************************************)
(* The classifier.  A loaded pipeline either raises or answers a label and *)
(* a score (in hundredths).  The pipelines drawn tell words apart by       *)
(* whether they hold the letter b.                                         *)
(***************************************************************************)
Kinds == {"plain", "b"}

KindOf(w) == IF \E k \in 1..Len(w) : w[k] = "b" THEN "b" ELSE "plain"

Labels == {"Toxic", "Neutral"}

Scores == {ScoreThreshold - 1, ScoreThreshold, ScoreThreshold + 1}

Raises == [kind |-> "raise", label |-> "", score |-> 0]

Answer(label, score) == [kind |-> "result", label |-> label, score |-> score]

Outcomes == {Raises} \cup {Answer(l, s) : l \in Labels, s \in Scores}

\* no pipeline was kept: there is nothing to answer
NoBehaviour == [k \in Kinds |-> Raises]

\* toxicity_classifier(word)[0]
Classify(w) == behaviour[KindOf(w)]

\* is_toxic with >= for > in the score test
is_toxic_at_threshold(w) ==
    IF Strip(w) = <<>> \/ ~Truthy(toxicity_classifier) THEN FALSE
    ELSE LET result == Classify(w)
         IN  IF result.kind = "raise" THEN FALSE
             ELSE result.label = "Toxic" /\ result.score >= ScoreThreshold

\* is_toxic (lines 73-81)
is_toxic(w) ==
    IF Strip(w) = <<>> \/ ~Truthy(toxicity_classifier) THEN FALSE
    ELSE LET result == Classify(w)
         IN  IF result.kind = "raise" THEN FALSE
             ELSE result.label = "Toxic" /\ result.score > ScoreThreshold

(***************************************************************************)
(* censor_audio (lines 83-113).                                            *)
(***************************************************************************)
\* int(x * 1000) for each timestamp x = t / TicksPerSec seconds that is drawn
MsTable == [t \in 0..MaxTime |-> FToInt(FMulInt(MsPerSec, FDiv(t, TicksPerSec)))]

\* int(word['start_time'] * 1000) for the timestamp t / TicksPerSec seconds
ToMs(t) == MsTable[t]

\* AudioSegment.silent(duration=0)
Silent == AudioSegment(<<>>)

\* lines 96-97: the audio between the last word and this one
AppendGap(st, start, au) ==
    IF st.last_end < start
    THEN Concat(st.censored, Slice(au, st.last_end, start))
    ELSE st.censored

\* line 99 and line 111: the tone for a toxic word, else the word's own audio
Segment(w, start, end, au) == IF is_toxic(w) THEN beep ELSE Slice(au, start, end)

\* TimedStep with last_end left at the word's start
TimedStepStaleEnd(st, wt, au) ==
    LET start == ToMs(wt.start_time)
        end   == ToMs(wt.end_time)
    IN  [censored |-> Concat(AppendGap(st, start, au), Segment(wt.word, start, end, au)),
         last_end |-> start]

\* lines 93-100: one pass of the loop over word timings
TimedStep(st, wt, au) ==
    LET start == ToMs(wt.start_time)
        end   == ToMs(wt.end_time)
    IN  [censored |-> Concat(AppendGap(st, start, au), Segment(wt.word, start, end, au)),
         last_end |-> end]

RECURSIVE TimedLoop(_, _, _)
\* lines 92-100: the state after the first k words
TimedLoop(ws, k, au) ==
    IF k = 0 THEN [censored |-> Silent, last_end |-> 0]
    ELSE TimedStep(TimedLoop(ws, k - 1, au), ws[k], au)

\* Trailing without the append of the audio after the last word
TrailingDropped(st, au) == st.censored

\* lines 102-103: the audio after the last word
Trailing(st, au) ==
    IF st.last_end < AudioLen(au)
    THEN Concat(st.censored, SliceFrom(au, st.last_end))
    ELSE st.censored

\* lines 109-110: the slice of word i (0-based) when each word gets duration ms
TextSlice(i, duration) ==
    [start |-> FToInt(FMulInt(i, duration)), end |-> FToInt(FMulInt(i + 1, duration))]

RECURSIVE TextLoop(_, _, _, _)
\* lines 108-111: the clip after the first k words
TextLoop(ws, duration, k, au) ==
    IF k = 0 THEN Silent
    ELSE LET sl == TextSlice(k - 1, duration)
         IN  Concat(TextLoop(ws, duration, k - 1, au), Segment(ws[k], sl.start, sl.end, au))

\* lines 105-111: the plain-text branch
CensorText(chars, au) ==
    LET ws == Split(chars)
    IN  IF Len(ws) = 0 THEN Raise("ZeroDivisionError")
        ELSE TextLoop(ws, FDiv(AudioLen(au), Len(ws)), Len(ws), au)

\* censor_audio without the test of the tone at its head
censor_audio_unguarded(wi, au) ==
    IF wi.kind = "list" THEN Trailing(TimedLoop(wi.words, Len(wi.words), au), au)
    ELSE IF wi.kind = "str" THEN CensorText(wi.chars, au)
    ELSE Silent

\* what censor_audio(wi, au) returns, or what it raises
censor_audio(wi, au) ==
    IF ~Truthy(beep) THEN None
    ELSE IF wi.kind = "list" THEN Trailing(TimedLoop(wi.words, Len(wi.words), au), au)
    ELSE IF wi.kind = "str" THEN CensorText(wi.chars, au)
    ELSE Silent

(***************************************************************************)
(* The inputs drawn.                                                       *)
(***************************************************************************)
WordList(ws) == [kind |-> "list", words |-> ws]

Text(chars) == [kind |-> "str", chars |-> chars]

\* a recognizer result that is a dict without 'alternative' (line 63)
Dict == [kind |-> "dict"]

WordTimings ==
    {wt \in [word : {<<"a">>, <<"b">>}, start_time : 0..MaxTime, end_time : 0..MaxTime] :
        wt.start_time <= wt.end_time}

\* word-timing lists as the recognizer gives them: spans in order, none overlapping
TimedLists ==
    UNION {{ws \in [1..n -> WordTimings] :
               \A j \in 2..n : ws[j].start_time >= ws[j - 1].end_time} :
           n \in 0..MaxTimedWords}

ShortTexts == UNION {[1..n -> Whitespace \cup Letters] : n \in 0..MaxTextLen}

\* n one-letter words, a and b in turn, a blank between two
LongText(n) ==
    [k \in 1..(2 * n - 1) |-> IF k % 2 = 0 THEN " " ELSE IF k % 4 = 1 THEN "a" ELSE "b"]

CensorInputs ==
    {<<WordList(ws), L>> : ws \in TimedLists, L \in 0..MaxShortClip}
    \cup {<<Text(t), L>> : t \in ShortTexts, L \in 0..MaxShortClip}
    \cup {<<Text(LongText(n)), L>> : n \in 1..MaxWords, L \in 0..MaxClipLen}
    \cup {<<Dict, L>> : L \in 0..MaxShortClip}

\* the pipelines drawn for censor_audio: each kind of word is toxic or is not, or
\* every call raises
CensorBehaviours ==
    [Kinds -> {Answer("Toxic", ScoreThreshold + 1), Answer("Neutral", ScoreThreshold + 1)}]
    \cup {[k \in Kinds |-> Raises]}

(***************************************************************************)
(* Initial states.                                                         *)
(***************************************************************************)
\* the module globals after import, for a pipeline among behaviours
EnvInit(behaviours) ==
    /\ pipeline_ok \in BOOLEAN
    /\ sine_ok \in BOOLEAN
    /\ behaviour \in (IF pipeline_ok /\ sine_ok THEN behaviours ELSE {NoBehaviour})
    /\ toxicity_classifier = InitComponents(pipeline_ok, sine_ok).toxicity_classifier
    /\ beep = InitComponents(pipeline_ok, sine_ok).beep

NoCensorCall == words_info = None /\ audio = Silent /\ censored = Pending

NoToxicCall == word = <<>> /\ toxic = Pending

NoWeb ==
    /\ files = {}
    /\ next_uuid = 0
    /\ requests = <<>>
    /\ responses = {}
    /\ closed = {}
    /\ flash = ""

(***************************************************************************)
(* SpecCensor: censor_audio applied to each input drawn.                   *)
(***************************************************************************)
InitCensor ==
    /\ EnvInit(CensorBehaviours)
    /\ \E in \in CensorInputs : words_info = in[1] /\ audio = Clip(in[2])
    /\ censored = Pending
    /\ NoToxicCall
    /\ NoWeb

CensorCall ==
    /\ censored = Pending
    /\ censored' = censor_audio(words_info, audio)
    /\ UNCHANGED <<envVars, words_info, audio, toxicVars, webVars>>

NextCensor == CensorCall

SpecCensor == InitCensor /\ [][NextCensor]_vars

(***************************************************************************)
(* The files of UPLOAD_FOLDER and the handlers.                            *)
(***************************************************************************)
\* most POST / requests handled
MaxUploads == 2

\* longest uploaded clip (ms)
MaxUploadClip == 2

\* f"{prefix}{uuid}.wav"
FileName(prefix, id) == [prefix |-> prefix, id |-> id]

NoFile == FileName("", 0)

ALLOWED_EXTENSIONS == {"wav"}

Lower(ext) == IF ext = "WAV" THEN "wav" ELSE ext

\* the uploaded file's name: its extension after the last dot, "" when it has no dot
UploadNames == [stem : {"clip"}, dot : BOOLEAN, ext : {"wav", "WAV", "mp3"}]

\* allowed_file (lines 33-35)
allowed_file(name) == name.dot /\ Lower(name.ext) \in ALLOWED_EXTENSIONS

\* os.unlink(path) inside try / except: pass
Unlink(fs, f) == fs \ {f}

\* UnlinkTemp with the finally clause missing
UnlinkTempSkipped(fs, temp) == fs

\* lines 64-68: the finally clause that removes the temporary file
UnlinkTemp(fs, temp) == Unlink(fs, temp)

\* load_and_transcribe_audio (lines 44-71) on a saved upload: decodes says whether
\* AudioSegment.from_wav reads it, clip is the audio read, rec is what
\* recognize_google(show_all=True) returns or raises
load_and_transcribe_audio(fs, uid, decodes, clip, rec) ==
    IF ~decodes
    THEN [words_info |-> None, audio |-> None, files |-> fs, next_uuid |-> uid, temp |-> NoFile]
    ELSE LET temp    == FileName("temp_", uid + 1)
             created == fs \cup {temp}
         IN  IF rec.kind = "raise"
             THEN [words_info |-> None, audio |-> None, files |-> UnlinkTemp(created, temp),
                   next_uuid |-> uid + 1, temp |-> temp]
             ELSE [words_info |-> rec, audio |-> clip, files |-> UnlinkTemp(created, temp),
                   next_uuid |-> uid + 1, temp |-> temp]

\* what one POST / leaves behind
Handled(fl, original, temp, processed, transcribed, called, result) ==
    [flash |-> fl, original |-> original, temp |-> temp, processed |-> processed,
     transcribed |-> transcribed, censor_called |-> called, censored |-> result]

\* lines 136-141, 145-150, 160-165: flash the error, remove the upload, redirect
FailedUpload(t, original, fl, ok, called, result) ==
    [files |-> Unlink(t.files, original), next_uuid |-> t.next_uuid,
     req |-> Handled(fl, original, t.temp, NoFile, ok, called, result)]

\* lines 143-157: after censor_audio returned c or raised
AfterCensor(t, original, c) ==
    IF c.kind = "raise"
    THEN FailedUpload(t, original, "Error: " \o c.exc, TRUE, TRUE, "raise")
    ELSE IF ~Truthy(c)
         THEN FailedUpload(t, original, "Error generating censored audio", TRUE, TRUE,
                           IF c = None THEN "None" ELSE "empty")
         ELSE [files |-> t.files \cup {FileName("processed_", t.next_uuid + 1)},
               next_uuid |-> t.next_uuid + 1,
               req |-> Handled("", original, t.temp, FileName("processed_", t.next_uuid + 1),
                               TRUE, TRUE, "clip")]

\* lines 134-157: after load_and_transcribe_audio returned t
AfterTranscribe(t, original) ==
    IF ~Truthy(t.words_info) \/ ~Truthy(t.audio)
    THEN FailedUpload(t, original, "Error processing audio", FALSE, FALSE, "")
    ELSE AfterCensor(t, original, censor_audio(t.words_info, t.audio))

\* lines 127-165: an allowed file is saved, transcribed and censored
ProcessUpload(decodes, clip, rec) ==
    AfterTranscribe(
        load_and_transcribe_audio(files \cup {FileName("original_", next_uuid + 1)},
                                  next_uuid + 1, decodes, clip, rec),
        FileName("original_", next_uuid + 1))

Rejected(fl) ==
    [files |-> files, next_uuid |-> next_uuid,
     req |-> Handled(fl, NoFile, NoFile, NoFile, FALSE, FALSE, "")]

\* what the recognizer gives for an upload: it raises, or returns [] (nothing
\* recognised), the word timings, the transcript, or a dict without 'alternative'
RecognizerResults ==
    {Raise("RequestError"), Dict, WordList(<<>>), Text(<<>>), Text(<<" ">>), Text(<<"b">>),
     WordList(<<[word |-> <<"a">>, start_time |-> 0, end_time |-> 1]>>),
     WordList(<<[word |-> <<"b">>, start_time |-> 0, end_time |-> 0]>>)}

\* upload_file, POST (lines 115-167), for one request
upload_file(form, name, decodes, clip, rec) ==
    /\ Len(requests) < MaxUploads
    /\ LET out == IF form # "file" THEN Rejected("No file selected")
                  ELSE IF ~allowed_file(name) THEN Rejected("")
                  ELSE ProcessUpload(decodes, clip, rec)
       IN  /\ files' = out.files
           /\ next_uuid' = out.next_uuid
           /\ requests' = Append(requests, out.req)
           /\ flash' = out.req.flash
    /\ UNCHANGED <<envVars, censorVars, toxicVars, responses, closed>>

\* the names a client may ask to download
DownloadNames == {FileName(p, id) : p \in {"original_", "processed_", "temp_"}, id \in 1..next_uuid}

\* download_file (lines 169-195): send_file opens the file, or it is not there
download_file(f) ==
    /\ IF f \in files
       THEN responses' = responses \cup {f} /\ flash' = ""
       ELSE responses' = responses /\ flash' = "File not found or already downloaded"
    /\ UNCHANGED <<envVars, censorVars, toxicVars, files, next_uuid, requests, closed>>

\* line 185: the other file of the pair, by the name of the one downloaded
Counterpart(f) ==
    FileName(IF f.prefix = "processed_" THEN "original_" ELSE "processed_", f.id)

\* lines 182-190: the files left when the response for f is closed
CleanedUp(fs, f) ==
    IF f \notin fs THEN fs
    ELSE IF Counterpart(f) \in fs THEN (fs \ {f}) \ {Counterpart(f)}
    ELSE fs \ {f}

\* cleanup (lines 180-190), run when the response for f is closed
cleanup(f) ==
    /\ f \in responses
    /\ responses' = responses \ {f}
    /\ closed' = closed \cup {f}
    /\ files' = CleanedUp(files, f)
    /\ UNCHANGED <<envVars, censorVars, toxicVars, next_uuid, requests, flash>>

\* cleanup_files (lines 197-210): every file of the folder is removed
cleanup_files ==
    /\ files # {}
    /\ files' = {}
    /\ UNCHANGED <<envVars, censorVars, toxicVars, next_uuid, requests, responses, closed, flash>>

\* the pipelines drawn for the handlers: words with b toxic, or every call raising
WebBehaviours ==
    {[k \in Kinds |-> IF k = "b" THEN Answer("Toxic", ScoreThreshold + 1)
                      ELSE Answer("Neutral", ScoreThreshold + 1)],
     [k \in Kinds |-> Raises]}

Init ==
    /\ EnvInit(WebBehaviours)
    /\ NoCensorCall
    /\ NoToxicCall
    /\ NoWeb

Next ==
    \/ \E form \in {"nofile", "emptyname", "file"}, name \in UploadNames, decodes \in BOOLEAN,
          len \in 0..MaxUploadClip, rec \in RecognizerResults :
          upload_file(form, name, decodes, Clip(len), rec)
    \/ \E f \in DownloadNames : download_file(f)
    \/ \E f \in responses : cleanup(f)
    \/ cleanup_files

Spec == Init /\ [][Next]_vars

(***************************************************************************)
(* SpecToxic: is_toxic applied to each word drawn, for every pipeline.     *)
(***************************************************************************)
\* most characters in a word handed to is_toxic
MaxWordLen == 2

ToxicWords == UNION {[1..n -> Whitespace \cup Letters] : n \in 0..MaxWordLen}

InitToxic ==
    /\ EnvInit([Kinds -> Outcomes])
    /\ word \in ToxicWords
    /\ toxic = Pending
    /\ NoCensorCall
    /\ NoWeb

ToxicCall ==
    /\ toxic = Pending
    /\ toxic' = [kind |-> "bool", value |-> is_toxic(word)]
    /\ UNCHANGED <<envVars, word, censorVars, webVars>>

NextToxic == ToxicCall

SpecToxic == InitToxic /\ [][NextToxic]_vars

(***************************************************************************)
(* What the claims about censor_audio speak of.                            *)
(***************************************************************************)
\* censor_audio has returned a clip
Returned == censored.kind = "AudioSegment"

TimedCase == words_info.kind = "list"

TextCase == words_info.kind = "str"

NWords == IF TimedCase THEN Len(words_info.words) ELSE Len(Split(words_info.chars))

L == AudioLen(audio)

\* the span of timed word j, in ms, and the end of the word before it
StartOf(j) == ToMs(words_info.words[j].start_time)

EndOf(j) == ToMs(words_info.words[j].end_time)

PrevEnd(j) == IF j = 1 THEN 0 ELSE EndOf(j - 1)

ToxicAt(j) == is_toxic(words_info.words[j].word)

\* start <= end for every word, and each start >= the end before it
MonotoneSpans == \A j \in 1..NWords : PrevEnd(j) <= StartOf(j) /\ StartOf(j) <= EndOf(j)

\* the frames of the input clip in the ms interval [a, b), in order
Orig(a, b) ==
    LET lo == Min(a, L)
        hi == Min(b, L)
    IN  IF hi <= lo THEN <<>> ELSE [k \in 1..(hi - lo) |-> lo + k]

\* what word j contributes: the gap before it, then the tone or its own audio
Piece(j) ==
    (IF StartOf(j) > PrevEnd(j) THEN Orig(PrevEnd(j), StartOf(j)) ELSE <<>>)
    \o (IF ToxicAt(j) THEN Tone.frames ELSE Orig(StartOf(j), EndOf(j)))

RECURSIVE Pieces(_)
Pieces(n) == IF n = 0 THEN <<>> ELSE Pieces(n - 1) \o Piece(n)

LastEnd == IF NWords = 0 THEN 0 ELSE EndOf(NWords)

\* the frames of the input clip that lie in no toxic word's span
KeptFrames == {k \in 1..L : ~\E j \in 1..NWords : ToxicAt(j) /\ StartOf(j) < k /\ k <= EndOf(j)}

\* the frames of the clip at the positions that hold no tone
OrigPart(frames) == SelectSeq(frames, LAMBDA f : f # 0)

Increasing(seq) == \A i, j \in 1..Len(seq) : i < j => seq[i] < seq[j]

Range(seq) == {seq[k] : k \in 1..Len(seq)}

\* C1: in the word-timing case with spans in order and the tone available, the
\* clip returned is, word after word, the gap [last_end, start) when start >
\* last_end, then the tone for a toxic word or else the slice [start, end), and
\* at the end the audio from the last end on; the original frames outside toxic
\* spans all appear, once each and in order.
C1_TimedOutput ==
    (censored # Pending /\ TimedCase /\ Truthy(beep) /\ MonotoneSpans) =>
        /\ Returned
        /\ censored.frames = Pieces(NWords) \o (IF LastEnd < L THEN Orig(LastEnd, L) ELSE <<>>)
        /\ Increasing(OrigPart(censored.frames))
        /\ Range(OrigPart(censored.frames)) = KeptFrames

C1_Witness ==
    /\ Returned /\ TimedCase /\ MonotoneSpans
    /\ NWords = 2
    /\ StartOf(1) > 0
    /\ ToxicAt(1) /\ EndOf(1) > StartOf(1)
    /\ StartOf(2) > EndOf(1)
    /\ ~ToxicAt(2) /\ EndOf(2) > StartOf(2)
    /\ LastEnd < L

RECURSIVE ToxicSpanTotal(_)
\* the total length of the toxic words' spans among the first n, clipped to the clip
ToxicSpanTotal(n) ==
    IF n = 0 THEN 0
    ELSE ToxicSpanTotal(n - 1)
         + (IF ToxicAt(n) THEN Min(EndOf(n), L) - Min(StartOf(n), L) ELSE 0)

NToxic == Cardinality({j \in 1..NWords : ToxicAt(j)})

\* C2 as stated: with word timings the clip returned is as long as the input,
\* whichever words are toxic.
C2_SameDuration ==
    (censored # Pending /\ TimedCase /\ Truthy(beep) /\ MonotoneSpans) =>
        Returned /\ AudioLen(censored) = L

\* C2 amended: with word timings the clip returned is as long as the input less
\* the toxic words' spans plus one tone per toxic word; it is as long as the
\* input when no word is toxic.
C2_DurationAccount ==
    (censored # Pending /\ TimedCase /\ Truthy(beep) /\ MonotoneSpans) =>
        /\ Returned
        /\ AudioLen(censored) = L - ToxicSpanTotal(NWords) + BeepLen * NToxic
        /\ (NToxic = 0 => AudioLen(censored) = L)

C2_Witness ==
    /\ Returned /\ TimedCase /\ MonotoneSpans
    /\ NToxic = 1 /\ NWords = 2
    /\ ToxicSpanTotal(NWords) > 0
    /\ AudioLen(censored) # L

\* C3: a transcription with no word, an empty word-timing list or a text that is
\* empty or all blanks, gives back the input clip and raises nothing.
C3_NoWordsUnchanged ==
    (censored # Pending /\ Truthy(beep) /\ (TimedCase \/ TextCase) /\ NWords = 0) =>
        censored = audio

\* C5: when the classifier failed to load and the tone generator works,
\* censor_audio still returns a clip, every word taken as not toxic.
C5_ClassifierDownStillCensors ==
    (censored # Pending /\ ~pipeline_ok /\ sine_ok /\ (TimedCase \/ TextCase) /\ NWords > 0) =>
        Returned /\ \A k \in 1..AudioLen(censored) : censored.frames[k] # 0

\* C6: when the classifier raises on every call, no tone is inserted and, for a
\* transcription with at least one word, the clip returned is the input clip.
C6_FailOpenUnchanged ==
    (/\ censored # Pending
     /\ Truthy(beep)
     /\ behaviour = [k \in Kinds |-> Raises]
     /\ \/ TimedCase /\ MonotoneSpans
        \/ TextCase
     /\ NWords > 0) =>
        censored = audio

\* the slice of word i (0-based) of n in exact arithmetic
FloorSlice(i, n) == [start |-> (i * L) \div n, end |-> ((i + 1) * L) \div n]

TextWords == Split(words_info.chars)

RECURSIVE FloorPieces(_)
\* the tone for each toxic word, the word's exact slice for each other, in order
FloorPieces(k) ==
    IF k = 0 THEN <<>>
    ELSE FloorPieces(k - 1)
         \o (IF is_toxic(TextWords[k]) THEN Tone.frames
             ELSE Orig(FloorSlice(k - 1, NWords).start, FloorSlice(k - 1, NWords).end))

\* C7: in the plain-text case word i of n gets the slice [floor(i*L/n),
\* floor((i+1)*L/n)); the slices run from 0 to L without a break, and the clip
\* returned is the tone for each toxic word and its slice for each other word.
C7_TextSlices ==
    (censored # Pending /\ TextCase /\ Truthy(beep) /\ NWords >= 1) =>
        /\ \A i \in 0..(NWords - 1) :
              TextSlice(i, FDiv(L, NWords)) = FloorSlice(i, NWords)
        /\ TextSlice(0, FDiv(L, NWords)).start = 0
        /\ TextSlice(NWords - 1, FDiv(L, NWords)).end = L
        /\ Returned
        /\ censored.frames = FloorPieces(NWords)

(***************************************************************************)
(* What the claim about is_toxic speaks of.                                *)
(***************************************************************************)
Blank(w) == \A k \in 1..Len(w) : w[k] = " "

\* C8: is_toxic(word) is true exactly when the word is not blank, the classifier
\* is there and does not raise, its label is Toxic and its score is above 0.7;
\* a score of exactly 0.7 is not toxic.
C8_ToxicIff ==
    toxic # Pending =>
        /\ toxic.value <=>
              /\ ~Blank(word)
              /\ toxicity_classifier # None
              /\ behaviour[KindOf(word)].kind = "result"
              /\ behaviour[KindOf(word)].label = "Toxic"
              /\ behaviour[KindOf(word)].score > ScoreThreshold
        /\ behaviour[KindOf(word)].score = ScoreThreshold => ~toxic.value

C8_Witness ==
    /\ toxic # Pending
    /\ toxic.value
    /\ word = <<" ", "b">>

(***************************************************************************)
(* What the claims about the handlers speak of.                            *)
(***************************************************************************)
Handling == {requests[k] : k \in 1..Len(requests)}

\* C4: with no tone every call of censor_audio returns None, the upload that
\* made it flashes the failure, and no processed file is made.
C4_NoToneNoCensoring ==
    beep = None =>
        /\ \A r \in Handling :
              r.censor_called =>
                  /\ r.censored = "None"
                  /\ r.flash = "Error generating censored audio"
                  /\ r.processed = NoFile
        /\ \A f \in files : f.prefix # "processed_"

C4_Witness ==
    /\ beep = None
    /\ \E r \in Handling : r.censor_called /\ r.flash = "Error generating censored audio"

\* C9: when load_and_transcribe_audio fails or returns nothing, censor_audio is
\* not called, no processed file is made for the request, and neither the
\* temporary file nor the upload stays in the folder.
C9_NoPartialOutput ==
    /\ \A r \in Handling :
          (r.original # NoFile /\ ~r.transcribed) =>
              /\ ~r.censor_called
              /\ r.processed = NoFile
              /\ r.flash = "Error processing audio"
              /\ r.original \notin files
              /\ r.temp \notin files
    /\ \A f \in files :
          \E r \in Handling : r.transcribed /\ r.processed # NoFile /\ f \in {r.original, r.processed}

C9_Witness ==
    \E r \in Handling : r.original # NoFile /\ ~r.transcribed /\ r.temp # NoFile

\* C10: once the download of the original or of the processed file of an upload
\* is closed, both files of that upload are gone from the folder.
C10_DownloadRemovesPair ==
    \A r \in Handling :
        r.processed # NoFile =>
            \A f \in {r.original, r.processed} :
                f \in closed => (r.original \notin files /\ r.processed \notin files)

====
